---- MODULE Spec2Model ----
(***************************************************************************)
(* A model of benchmark.py: one invocation of main(), which issues one     *)
(* HTTP request and reports tokens/second, either from a buffered response *)
(* (run_non_streaming) or from an incrementally consumed line stream       *)
(* (run_streaming).                                                        *)
(*                                                                         *)
(* Python strings are sequences of one-character strings.  JSON values are *)
(* tagged records.  A clock reading (time.time()) is an integer number of  *)
(* ticks; the wall clock may step backwards, so a reading is any value of  *)
(* Clock.  round(x, 6) in the printed record is not represented: the       *)
(* record holds the values as computed.                                    *)
(*                                                                         *)
(* Spec is the whole invocation; MonoSpec is the same under a clock that   *)
(* never steps back; TokSpec is a call of token_count, ExSpec the          *)
(* extraction of a text piece from a parsed object, and LineSpec one pass  *)
(* of the streaming loop, each on its own over a wider set of inputs.      *)
(***************************************************************************)
EXTENDS Integers, Sequences, FiniteSets, TLC

(* ------------------------------ bounds -------------------------------- *)

\* longest stream of lines the server delivers
MaxLines == 3
\* longest stream that holds irregular lines
MaxOdd == 2
\* largest clock reading
MaxClock == 2
\* longest text handed to token_count on its own
MaxText == 3
\* longest choices list of a parsed object handed to the extraction on its own
MaxChoices == 2

Clock == 0..MaxClock

(* ------------------------- Python / JSON values ----------------------- *)

\* Python's None for the two timestamps (a reading is never negative here)
None == -1

JNull == [t |-> "null"]
JBool(b) == [t |-> "bool", b |-> b]
JNum(n) == [t |-> "num", n |-> n]
JStr(s) == [t |-> "str", s |-> s]
JArr(a) == [t |-> "arr", a |-> a]
JObj(o) == [t |-> "obj", o |-> o]

\* the empty dict {}
EmptyDict == [k \in {} |-> JNull]

\* a local that has not been assigned yet
Unbound == [t |-> "unbound"]

\* bool(v) for a JSON value v
Truthy(v) ==
  CASE v.t = "null" -> FALSE
    [] v.t = "bool" -> v.b
    [] v.t = "num" -> v.n # 0
    [] v.t = "str" -> v.s # <<>>
    [] v.t = "arr" -> v.a # <<>>
    [] v.t = "obj" -> DOMAIN v.o # {}
    [] OTHER -> FALSE

\* d.get(k, default) for a dict d
DictGet(d, k, default) == IF k \in DOMAIN d.o THEN d.o[k] ELSE default

(* ------------------------------ strings ------------------------------- *)

IsSpace(c) == c = " "

RECURSIVE LStrip(_)
LStrip(s) == IF s # <<>> /\ IsSpace(Head(s)) THEN LStrip(Tail(s)) ELSE s

RECURSIVE RStrip(_)
RStrip(s) ==
  IF s # <<>> /\ IsSpace(s[Len(s)]) THEN RStrip(SubSeq(s, 1, Len(s) - 1)) ELSE s

\* s.startswith(p)
StartsWith(s, p) == Len(s) >= Len(p) /\ SubSeq(s, 1, Len(p)) = p

DataPrefix == <<"d", "a", "t", "a", ":">>
DoneText == <<"[", "D", "O", "N", "E", "]">>

IsDigit(c) == c \in {"0", "1", "2", "3", "4", "5", "6", "7", "8", "9"}

DigitValue(c) ==
  CASE c = "0" -> 0 [] c = "1" -> 1 [] c = "2" -> 2 [] c = "3" -> 3
    [] c = "4" -> 4 [] c = "5" -> 5 [] c = "6" -> 6 [] c = "7" -> 7
    [] c = "8" -> 8 [] c = "9" -> 9

(* ------------------------------- lines -------------------------------- *)

(* A line of the response is the text  pre ++ <JSON document> ++ post,     *)
(* where the document is carried as its value (json.loads of its text) and *)
(* may be absent: then the line is the text pre alone and post is empty.   *)
(* The text of a document starts and ends with a character that is neither *)
(* whitespace nor part of "data:".                                         *)
NoDoc == [t |-> "nodoc"]

TextLine(s) == [pre |-> s, doc |-> NoDoc, post |-> <<>>]
DocLine(pre, d) == [pre |-> pre, doc |-> d, post |-> <<>>]

\* raw.strip()
Strip(l) ==
  IF l.doc = NoDoc
  THEN [l EXCEPT !.pre = RStrip(LStrip(l.pre))]
  ELSE [l EXCEPT !.pre = LStrip(l.pre), !.post = RStrip(l.post)]

\* not line
IsEmptyLine(l) == l.doc = NoDoc /\ l.pre = <<>> /\ l.post = <<>>

\* a defect: the prefix is removed and the payload is not trimmed
PayloadTextUntrimmed(line) ==
  IF StartsWith(line.pre, DataPrefix)
  THEN [line EXCEPT !.pre = SubSeq(line.pre, Len(DataPrefix) + 1, Len(line.pre))]
  ELSE line

\* line[len("data:"):].strip() if line.startswith("data:") else line
PayloadText(line) ==
  IF StartsWith(line.pre, DataPrefix)
  THEN Strip([line EXCEPT !.pre = SubSeq(line.pre, Len(DataPrefix) + 1, Len(line.pre))])
  ELSE line

\* payload_text == "[DONE]"
IsDone(p) == p.doc = NoDoc /\ p.pre = DoneText

\* if payload_text (the payload is not the empty text)
IsNonEmpty(p) == ~IsEmptyLine(p)

(* json.loads(payload_text): the value of a document (the lines of the     *)
(* model carry a document only behind whitespace and "data:", so that it   *)
(* stands alone in the payload), or of a text that is a JSON number made   *)
(* of one digit; every other text of the model (letters, brackets,         *)
(* "data:", the empty text) is no JSON document and raises.                *)
(* Returns [ok, v].                                                        *)
JsonLoads(p) ==
  IF p.doc # NoDoc
  THEN [ok |-> TRUE, v |-> p.doc]
  ELSE IF Len(p.pre) = 1 /\ IsDigit(p.pre[1])
       THEN [ok |-> TRUE, v |-> JNum(DigitValue(p.pre[1]))]
       ELSE [ok |-> FALSE, v |-> JNull]

(* The text piece of a parsed object (the try block of run_streaming).     *)
(* Every exception raised in the block is swallowed and leaves "".         *)
EmptyStr == JStr(<<>>)

\* a defect: only the chat schema is read
PieceOfChoiceChatOnly(ch) ==
  IF "delta" \in DOMAIN ch.o /\ ch.o["delta"].t = "obj"
  THEN DictGet(ch.o["delta"], "content", EmptyStr)
  ELSE EmptyStr

\* a defect: a delta without content falls back to the text field
PieceOfChoiceFallback(ch) ==
  IF /\ "delta" \in DOMAIN ch.o /\ ch.o["delta"].t = "obj"
     /\ "content" \in DOMAIN ch.o["delta"].o
  THEN ch.o["delta"].o["content"]
  ELSE IF "text" \in DOMAIN ch.o
       THEN DictGet(ch, "text", EmptyStr)
       ELSE EmptyStr

\* the piece of the first choice ch, a dict
PieceOfChoice(ch) ==
  IF "delta" \in DOMAIN ch.o /\ ch.o["delta"].t = "obj"
  THEN DictGet(ch.o["delta"], "content", EmptyStr)
  ELSE IF "text" \in DOMAIN ch.o
       THEN DictGet(ch, "text", EmptyStr)
       ELSE EmptyStr

TextPiece(obj) ==
  IF obj.t # "obj"
  THEN EmptyStr            \* obj.get: AttributeError
  ELSE LET got == DictGet(obj, "choices", JNull)
           choices == IF Truthy(got) THEN got ELSE JArr(<<>>)
       IN IF ~Truthy(choices)
          THEN EmptyStr
          ELSE IF choices.t # "arr"
               THEN EmptyStr   \* choices[0] of a dict, number or bool raises; of a
                               \* str it is a one-character str: no "delta", no "text"
               ELSE LET ch == choices.a[1]
                    IN IF ch.t # "obj"
                       THEN EmptyStr   \* "delta" in ch, ch["delta"] or ch.get raises,
                                       \* or neither key is found
                       ELSE PieceOfChoice(ch)

(* ------------------------- the streaming loop ------------------------- *)

(* The locals of the for loop are st = [chunks, first, last]; a pass of    *)
(* the loop returns them with brk (the loop was left by break) and read    *)
(* (time.time() was called in this pass).                                  *)
Skip(st) == [chunks |-> st.chunks, first |-> st.first, last |-> st.last,
             brk |-> FALSE, read |-> FALSE]

\* a defect: the accumulator keeps the latest piece only
AccumulateLatest(st, piece, now) ==
  [chunks |-> <<piece>>,
   first |-> IF st.first = None THEN now ELSE st.first,
   last |-> now, brk |-> FALSE, read |-> TRUE]

\* a defect: first_token_time is assigned at every fragment
AccumulateRestamp(st, piece, now) ==
  [chunks |-> Append(st.chunks, piece),
   first |-> now, last |-> now, brk |-> FALSE, read |-> TRUE]

\* chunks.append(piece); now = time.time(); first_token_time / last_token_time
Accumulate(st, piece, now) ==
  [chunks |-> Append(st.chunks, piece),
   first |-> IF st.first = None THEN now ELSE st.first,
   last |-> now, brk |-> FALSE, read |-> TRUE]

\* a defect: the sentinel leaves the loop without recording its time
SentinelUnstamped(st, now) ==
  [chunks |-> st.chunks, first |-> st.first, last |-> st.last,
   brk |-> TRUE, read |-> FALSE]

\* payload_text == "[DONE]": last_token_time = time.time(); break
Sentinel(st, now) ==
  [chunks |-> st.chunks, first |-> st.first, last |-> now,
   brk |-> TRUE, read |-> TRUE]

\* json.loads raised: the payload is accumulated as it is, if it is not empty
RawPiece(st, payload_text, now) ==
  IF IsNonEmpty(payload_text)
  THEN Accumulate(st, JStr(payload_text.pre), now)
  ELSE Skip(st)

\* a defect: the text piece is accumulated whatever it is
ParsedPieceAlways(st, obj, now) == Accumulate(st, TextPiece(obj), now)

\* the parsed object: its text piece is accumulated if it is truthy
ParsedPiece(st, obj, now) ==
  LET text_piece == TextPiece(obj)
  IN IF Truthy(text_piece) THEN Accumulate(st, text_piece, now) ELSE Skip(st)

\* one pass of the for loop, over the line raw (iter_lines yields no None, so
\* the test "raw is None" never fires)
LoopBody(st, raw, now) ==
  LET line == Strip(raw)
      payload_text == PayloadText(line)
      parsed == JsonLoads(payload_text)
  IN IF IsEmptyLine(line) THEN Skip(st)
     ELSE IF IsDone(payload_text) THEN Sentinel(st, now)
     ELSE IF ~parsed.ok THEN RawPiece(st, payload_text, now)
     ELSE ParsedPiece(st, parsed.v, now)

(* --------------------------- after the loop --------------------------- *)

RECURSIVE Concat(_)
Concat(ss) == IF ss = <<>> THEN <<>> ELSE Head(ss).s \o Concat(Tail(ss))

\* "".join(chunks): TypeError unless every chunk is a str
Join(chunks) ==
  IF \A i \in 1..Len(chunks) : chunks[i].t = "str"
  THEN [ok |-> TRUE, v |-> JStr(Concat(chunks))]
  ELSE [ok |-> FALSE, v |-> Unbound]

\* bool(t) of a timestamp: None and 0.0 are falsy
TimeTruthy(t) == t # None /\ t # 0

\* a defect: a first timestamp that was never set counts as 0
ElapsedFromZero(first, last) ==
  IF TimeTruthy(last) THEN last - (IF first = None THEN 0 ELSE first) ELSE 0

\* (last_token_time - first_token_time) if (first_token_time and last_token_time) else 0.0
Elapsed(first, last) ==
  IF TimeTruthy(first) /\ TimeTruthy(last) THEN last - first ELSE 0

\* float("inf"), and the quotient n / d of a number of tokens and a time
Inf == [inf |-> TRUE, num |-> 0, den |-> 0]
Ratio(n, d) == [inf |-> FALSE, num |-> n, den |-> d]

(* ------------------------------ token_count --------------------------- *)

Letters ==
  {"a", "b", "c", "d", "e", "f", "g", "h", "i", "j", "k", "l", "m", "n", "o",
   "p", "q", "r", "s", "t", "u", "v", "w", "x", "y", "z", "D", "O", "N", "E"}

\* \w
IsWord(c) == c \in Letters \/ IsDigit(c) \/ c = "_"

\* a defect: every word character is a match of its own
RECURSIVE FindAllPerChar(_, _)
FindAllPerChar(s, in_word) ==
  IF s = <<>> THEN 0
  ELSE (IF IsSpace(Head(s)) THEN 0 ELSE 1) + FindAllPerChar(Tail(s), FALSE)

\* len(re.findall(r"\w+|[^\s\w]", s)); in_word: the character before is of a \w+ match
RECURSIVE FindAll(_, _)
FindAll(s, in_word) ==
  IF s = <<>> THEN 0
  ELSE IF IsWord(Head(s))
       THEN (IF in_word THEN 0 ELSE 1) + FindAll(Tail(s), TRUE)
       ELSE IF IsSpace(Head(s))
            THEN FindAll(Tail(s), FALSE)
            ELSE 1 + FindAll(Tail(s), FALSE)

(* The tokenizer library as token_count finds it: available (the import    *)
(* succeeded), model (the model argument is not empty), model_ok           *)
(* (encoding_for_model returns), default_ok (get_encoding("cl100k_base")   *)
(* returns), encode_ok (enc.encode returns).                               *)
TokEnvs ==
  [available : BOOLEAN, model : BOOLEAN, model_ok : BOOLEAN,
   default_ok : BOOLEAN, encode_ok : BOOLEAN]

\* the lengths len(enc.encode(text)) can have: a str of k > 0 characters
\* encodes to 1..k tokens
EncodingLengths(text) == 1..Len(text.s)

\* the try block of token_count returns len(enc.encode(text))
Encodes(text, env) ==
  /\ env.available
  /\ (env.model /\ env.model_ok) \/ env.default_ok
  /\ env.encode_ok
  /\ text.t = "str"

\* the encoding enc that encodes the text: the model's, else cl100k_base
Encoder(env) == IF env.model /\ env.model_ok THEN "model" ELSE "default"

\* a defect: an error of the tokenizer library is not caught
TokenCountUnguarded(text, env) ==
  IF ~Truthy(text) THEN {[raised |-> FALSE, n |-> 0, by |-> "none"]}
  ELSE IF Encodes(text, env)
       THEN {[raised |-> FALSE, n |-> k, by |-> Encoder(env)] : k \in EncodingLengths(text)}
       ELSE IF env.available
            THEN {[raised |-> TRUE, n |-> 0, by |-> Encoder(env)]}
            ELSE {[raised |-> FALSE, n |-> FindAll(text.s, FALSE), by |-> "heuristic"]}

(* What token_count(text, model) can do: return n ([raised |-> FALSE, n])  *)
(* or raise; by is what counted: the encoding of the model, the default    *)
(* encoding, the heuristic, or nothing (the text is empty or None).        *)
TokenCount(text, env) ==
  IF ~Truthy(text) THEN {[raised |-> FALSE, n |-> 0, by |-> "none"]}
  ELSE IF Encodes(text, env)
       THEN {[raised |-> FALSE, n |-> k, by |-> Encoder(env)] : k \in EncodingLengths(text)}
       ELSE IF text.t = "str"
            THEN {[raised |-> FALSE, n |-> FindAll(text.s, FALSE), by |-> "heuristic"]}
            ELSE {[raised |-> TRUE, n |-> 0, by |-> "heuristic"]}    \* re.findall: TypeError

\* num_tokens / elapsed: of an int, a float or a bool; TypeError of any other value
Divide(num_tokens, elapsed) ==
  CASE num_tokens.t = "num" -> [raised |-> FALSE, v |-> Ratio(num_tokens.n, elapsed)]
    [] num_tokens.t = "bool" ->
         [raised |-> FALSE, v |-> Ratio(IF num_tokens.b THEN 1 ELSE 0, elapsed)]
    [] OTHER -> [raised |-> TRUE, v |-> Inf]

\* a defect: a zero duration yields 0.0
TpsZero(num_tokens, elapsed) ==
  IF elapsed > 0
  THEN Divide(num_tokens, elapsed)
  ELSE [raised |-> FALSE, v |-> Ratio(0, 1)]

\* num_tokens / elapsed if elapsed > 0 else float("inf")
Tps(num_tokens, elapsed) ==
  IF elapsed > 0 THEN Divide(num_tokens, elapsed) ELSE [raised |-> FALSE, v |-> Inf]

(* ------------------------------ the stream ---------------------------- *)

Chat(s) == JObj([choices |-> JArr(<<JObj([delta |-> JObj([content |-> s])])>>)])
Completion(s) == JObj([choices |-> JArr(<<JObj([text |-> s])>>)])

DataSp == <<"d", "a", "t", "a", ":", " ">>
Heartbeat == <<"h", "b">>

(* The lines a server sends, of which a stream is made:                    *)
(*   1  the empty line that separates events                               *)
(*   2  data: [DONE]                                                       *)
(*   3  " data: hb "                   (a heartbeat: no JSON)              *)
(*   4  data: {"choices":[{"delta":{"content":"a"}}]}                      *)
(*   5  {"choices":[{"text":" b."}]}   (newline-delimited JSON)            *)
(*   6  data: {"choices":[{"delta":{"content":""}}]}                       *)
(*   7  data:                          (an empty payload)                  *)
(*   8  data: {"choices":[{"delta":{"content":5}}]}                        *)
(*   9  data: 7                        (JSON, no object)                   *)
(*  10  data: {"choices":[]}                                               *)
(*  11  data: {"choices":[{"delta":{},"text":"a"}]}                        *)
LineCat ==
  << TextLine(<<>>),
     TextLine(DataSp \o DoneText),
     TextLine(<<" ">> \o DataSp \o Heartbeat \o <<" ">>),
     DocLine(DataSp, Chat(JStr(<<"a">>))),
     DocLine(<<>>, Completion(JStr(<<" ", "b", ".">>))),
     DocLine(DataSp, Chat(EmptyStr)),
     TextLine(DataPrefix),
     DocLine(DataSp, Chat(JNum(5))),
     TextLine(DataSp \o <<"7">>),
     DocLine(DataSp, JObj([choices |-> JArr(<<>>)])),
     DocLine(DataSp, JObj([choices |->
        JArr(<<JObj([delta |-> JObj(EmptyDict), text |-> JStr(<<"a">>)])>>)])) >>

\* the lines of a regular stream, and all lines
RegularLines == 1..6
AllLines == 1..Len(LineCat)

(* A stream names each of its lines by its place in LineCat: at most       *)
(* MaxLines regular lines, or at most MaxOdd lines of any kind.            *)
Streams ==
  UNION {[1..n -> RegularLines] : n \in 0..MaxLines}
    \cup UNION {[1..n -> AllLines] : n \in 0..MaxOdd}

(* ---------------------- the non-streaming response ------------------- *)

Chars(k) ==
  CASE k = "message" -> <<"m", "e", "s", "s", "a", "g", "e">>
    [] k = "content" -> <<"c", "o", "n", "t", "e", "n", "t">>
    [] k = "text" -> <<"t", "e", "x", "t">>

IsSubstr(n, h) == \E i \in 0..(Len(h) - Len(n)) : SubSeq(h, i + 1, i + Len(n)) = n

\* k in v, for a key k: of a dict, a list or a str; TypeError of any other value
PyIn(k, v) ==
  CASE v.t = "obj" -> [raised |-> FALSE, b |-> k \in DOMAIN v.o]
    [] v.t = "arr" ->
         [raised |-> FALSE,
          b |-> \E i \in 1..Len(v.a) : v.a[i].t = "str" /\ v.a[i].s = Chars(k)]
    [] v.t = "str" -> [raised |-> FALSE, b |-> IsSubstr(Chars(k), v.s)]
    [] OTHER -> [raised |-> TRUE, b |-> FALSE]

\* v[k], for a key k: of a dict that has it; KeyError or TypeError otherwise
PyItem(v, k) ==
  IF v.t = "obj" /\ k \in DOMAIN v.o
  THEN [raised |-> FALSE, v |-> v.o[k]]
  ELSE [raised |-> TRUE, v |-> JNull]

\* v[0]: of a list or str that is not empty; KeyError, IndexError or TypeError otherwise
PyFirst(v) ==
  CASE v.t = "arr" /\ v.a # <<>> -> [raised |-> FALSE, v |-> v.a[1]]
    [] v.t = "str" /\ v.s # <<>> -> [raised |-> FALSE, v |-> JStr(<<v.s[1]>>)]
    [] OTHER -> [raised |-> TRUE, v |-> JNull]

Raised == [raised |-> TRUE, v |-> JNull]
Value(x) == [raised |-> FALSE, v |-> x]

\* elif "text" in choice: text = choice["text"]
ChoiceTextField(choice) ==
  LET has == PyIn("text", choice)
  IN IF has.raised THEN Raised
     ELSE IF has.b THEN PyItem(choice, "text") ELSE Value(EmptyStr)

\* the text of the first choice: message.content, else text, else ""
ChoiceText(choice) ==
  LET has_msg == PyIn("message", choice)
  IN IF has_msg.raised THEN Raised
     ELSE IF ~has_msg.b THEN ChoiceTextField(choice)
     ELSE LET msg == PyItem(choice, "message")
          IN IF msg.raised THEN Raised
             ELSE LET has_content == PyIn("content", msg.v)
                  IN IF has_content.raised THEN Raised
                     ELSE IF has_content.b THEN PyItem(msg.v, "content")
                     ELSE ChoiceTextField(choice)

\* the response text of a dict data
ResponseText(data) ==
  IF ~Truthy(DictGet(data, "choices", JNull)) THEN Value(EmptyStr)
  ELSE LET choice == PyFirst(data.o["choices"])
       IN IF choice.raised THEN Raised ELSE ChoiceText(choice.v)

\* a defect: the usage the server reports is not read
UsageTokensIgnored(data) == JNull

\* usage_tokens of a dict data: usage.total_tokens, or None
UsageTokens(data) ==
  IF "usage" \in DOMAIN data.o /\ data.o["usage"].t = "obj"
  THEN DictGet(data.o["usage"], "total_tokens", JNull)
  ELSE JNull

(* The bodies a server answers with:                                       *)
(*   1  no JSON document                                                   *)
(*   2  {"choices":[{"message":{"content":"hi"}}],"usage":{"total_tokens":7}} *)
(*   3  {"choices":[{"message":{"content":"hi"}}]}                         *)
(*   4  {"choices":[{"text":"hi you"}]}                                    *)
(*   5  {}                                                                 *)
(*   6  []                                                                 *)
(*   7  {"choices":[{"message":null}]}                                     *)
(*   8  {"choices":[{"text":"hi"}],"usage":{"total_tokens":"7"}}           *)
(*   9  {"choices":[{"text":5}]}                                           *)
(*  10  {"choices":[{"message":{}}],"usage":3}                             *)
(*  11  {"choices":[{"message":{"content":"hi"}}],"usage":{"total_tokens":null}} *)
Hi == JStr(<<"h", "i">>)

BodyCat ==
  << NoDoc,
     JObj([choices |-> JArr(<<JObj([message |-> JObj([content |-> Hi])])>>),
           usage |-> JObj([total_tokens |-> JNum(7)])]),
     JObj([choices |-> JArr(<<JObj([message |-> JObj([content |-> Hi])])>>)]),
     JObj([choices |-> JArr(<<JObj([text |-> JStr(<<"h", "i", " ", "y", "o", "u">>)])>>)]),
     JObj(EmptyDict),
     JArr(<<>>),
     JObj([choices |-> JArr(<<JObj([message |-> JNull])>>)]),
     JObj([choices |-> JArr(<<JObj([text |-> Hi])>>),
           usage |-> JObj([total_tokens |-> JStr(<<"7">>)])]),
     JObj([choices |-> JArr(<<JObj([text |-> JNum(5)])>>)]),
     JObj([choices |-> JArr(<<JObj([message |-> JObj(EmptyDict)])>>),
           usage |-> JNum(3)]),
     JObj([choices |-> JArr(<<JObj([message |-> JObj([content |-> Hi])])>>),
           usage |-> JObj([total_tokens |-> JNull])]) >>

(* ------------------------------- state -------------------------------- *)

VARIABLES
  pc,                 \* where the invocation is
  stream_flag,        \* args.stream
  stream,             \* the lines the server sends in streaming mode
  body,               \* the body the server sends in non-streaming mode
  requests,           \* the number of HTTP requests issued
  resp,               \* the streaming response: "none", "open" or "closed"
  status_ok,          \* the response has a success status
  pos,                \* the place in stream of the next line of iter_lines
  chunks, first_token_time, last_token_time,   \* the locals of the loop
  full_text, elapsed, num_tokens, tps,         \* the locals after it
  printed,            \* the records printed to standard output
  error,              \* the exception that left the run, or "none"
  ended_by,           \* history: "sentinel" or "exhausted", how the loop ended
  first_frag_at,      \* history: the reading at the first non-empty fragment
  last_frag_at,       \* history: the reading at the last non-empty fragment
  done_at,            \* history: the reading at the sentinel
  twin                \* history: the loop's locals over the schema-swapped stream

\* a call of token_count on its own: its text, the tokenizer library it finds, its outcome
VARIABLES tc_text, tc_env, tc_out

tok_vars == <<tc_text, tc_env, tc_out>>

\* the extraction of a text piece on its own: the parsed object, and the piece
VARIABLES ex_obj, ex_piece

\* one pass of the loop on its own: the line it is over
VARIABLES ln_raw

ex_vars == <<ex_obj, ex_piece, ln_raw>>

prog_vars ==
  <<pc, stream_flag, stream, body, requests, resp, status_ok, pos, chunks,
    first_token_time, last_token_time, full_text, elapsed, num_tokens, tps,
    printed, error, ended_by, first_frag_at, last_frag_at, done_at, twin>>

vars == <<prog_vars, tok_vars, ex_vars>>

loop_vars == <<pos, chunks, first_token_time, last_token_time, twin>>
after_vars == <<full_text, elapsed, num_tokens, tps>>
hist_vars == <<ended_by, first_frag_at, last_frag_at, done_at>>
args_vars == <<stream_flag, stream, body>>

\* the line at place i of the stream
LineAt(i) == LineCat[stream[i]]

(* History only, not part of the program: the two schemas of a fragment,   *)
(* and the line that carries the same fragment in the other schema.        *)
OnlyChoice(d) ==
  /\ d.t = "obj" /\ DOMAIN d.o = {"choices"}
  /\ d.o["choices"].t = "arr" /\ Len(d.o["choices"].a) = 1
  /\ d.o["choices"].a[1].t = "obj"

IsChat(d) ==
  /\ OnlyChoice(d)
  /\ LET ch == d.o["choices"].a[1]
     IN /\ DOMAIN ch.o = {"delta"}
        /\ ch.o["delta"].t = "obj" /\ DOMAIN ch.o["delta"].o = {"content"}
        /\ ch.o["delta"].o["content"].t = "str"

IsCompletion(d) ==
  /\ OnlyChoice(d)
  /\ LET ch == d.o["choices"].a[1]
     IN DOMAIN ch.o = {"text"} /\ ch.o["text"].t = "str"

\* the same fragment in the other schema: chat <-> completion
SwapSchema(l) ==
  IF l.doc = NoDoc THEN l
  ELSE IF IsChat(l.doc)
       THEN [l EXCEPT !.doc = Completion(l.doc.o["choices"].a[1].o["delta"].o["content"])]
       ELSE IF IsCompletion(l.doc)
            THEN [l EXCEPT !.doc = Chat(l.doc.o["choices"].a[1].o["text"])]
            ELSE l

Locals == [chunks |-> chunks, first |-> first_token_time, last |-> last_token_time]

\* token_count has not been called on its own
NotCalled == [raised |-> FALSE, n |-> 0, by |-> "pending"]

\* token_count is not called on its own
TokIdle ==
  /\ tc_text = JNull
  /\ tc_env = [available |-> FALSE, model |-> FALSE, model_ok |-> FALSE,
               default_ok |-> FALSE, encode_ok |-> FALSE]
  /\ tc_out = NotCalled

\* the extraction is not run on its own
ExIdle == ex_obj = JNull /\ ex_piece = Unbound

\* no pass of the loop is run on its own
LineIdle == ln_raw = TextLine(<<>>)

\* nothing has run yet
InitRun ==
  /\ requests = 0
  /\ resp = "none"
  /\ status_ok = TRUE
  /\ pos = 1
  /\ chunks = <<>>
  /\ first_token_time = None
  /\ last_token_time = None
  /\ full_text = Unbound
  /\ elapsed = 0
  /\ num_tokens = JNull
  /\ tps = Inf
  /\ printed = <<>>
  /\ error = "none"
  /\ ended_by = "none"
  /\ first_frag_at = None
  /\ last_frag_at = None
  /\ done_at = None
  /\ twin = [chunks |-> <<>>, first |-> None, last |-> None]

Init ==
  /\ pc = "main"
  /\ stream_flag \in BOOLEAN
  /\ stream \in (IF stream_flag THEN Streams ELSE {<<>>})
  /\ body \in (IF stream_flag THEN {1} ELSE 1..Len(BodyCat))
  /\ InitRun
  /\ TokIdle
  /\ ExIdle
  /\ LineIdle

(* ------------------------------- main --------------------------------- *)

\* a defect: the two modes are taken for each other
MainSwapped ==
  /\ pc = "main"
  /\ pc' = IF stream_flag THEN "n_post" ELSE "s_post"
  /\ UNCHANGED <<args_vars, tok_vars, ex_vars, requests, resp, status_ok, loop_vars,
                 after_vars, printed, error, hist_vars>>

\* main: run_streaming if args.stream, else run_non_streaming
Main ==
  /\ pc = "main"
  /\ pc' = IF stream_flag THEN "s_post" ELSE "n_post"
  /\ UNCHANGED <<args_vars, tok_vars, ex_vars, requests, resp, status_ok, loop_vars, after_vars,
                 printed, error, hist_vars>>

(* ---------------------------- run_streaming --------------------------- *)

\* a defect: the response is not used as a context manager
ExitWithLeak(r) == r

\* leaving the with block closes the response
ExitWith(r) == "closed"

\* requests.post(..., stream=True) raises, or returns a response
StreamPost ==
  /\ pc = "s_post"
  /\ requests' = requests + 1
  /\ \/ /\ pc' = "raised"
        /\ error' = "ConnectionError"
        /\ UNCHANGED <<resp, status_ok>>
     \/ /\ pc' = "s_status"
        /\ resp' = "open"
        /\ status_ok' \in BOOLEAN
        /\ UNCHANGED error
  /\ UNCHANGED <<args_vars, tok_vars, ex_vars, loop_vars, after_vars, printed, hist_vars>>

\* a defect: the status of the response is not checked
StreamStatusUnchecked ==
  /\ pc = "s_status"
  /\ pc' = "s_loop"
  /\ UNCHANGED <<args_vars, tok_vars, ex_vars, requests, resp, status_ok, loop_vars, after_vars, printed,
                 error, hist_vars>>

\* r.raise_for_status(), then the three locals of the loop
StreamStatus ==
  /\ pc = "s_status"
  /\ IF status_ok
     THEN /\ pc' = "s_loop"
          /\ UNCHANGED <<resp, error>>
     ELSE /\ pc' = "raised"
          /\ error' = "HTTPError"
          /\ resp' = ExitWith(resp)
  /\ UNCHANGED <<args_vars, tok_vars, ex_vars, requests, status_ok, loop_vars, after_vars, printed,
                 hist_vars>>

\* one pass of the for loop over the next line
StreamLine ==
  /\ pc = "s_loop"
  /\ pos <= Len(stream)
  /\ \E now \in Clock :
       LET st == LoopBody(Locals, LineAt(pos), now)
           tw == LoopBody(twin, SwapSchema(LineAt(pos)), now)
           frag == Len(st.chunks) > Len(chunks)
       IN /\ chunks' = st.chunks
          /\ first_token_time' = st.first
          /\ last_token_time' = st.last
          /\ twin' = [chunks |-> tw.chunks, first |-> tw.first, last |-> tw.last]
          /\ pos' = pos + 1
          /\ pc' = IF st.brk THEN "s_after" ELSE "s_loop"
          /\ ended_by' = IF st.brk THEN "sentinel" ELSE ended_by
          /\ first_frag_at' = IF frag /\ first_frag_at = None THEN now ELSE first_frag_at
          /\ last_frag_at' = IF frag THEN now ELSE last_frag_at
          /\ done_at' = IF st.brk THEN now ELSE done_at
  /\ UNCHANGED <<args_vars, tok_vars, ex_vars, requests, resp, status_ok, after_vars, printed, error>>

\* iter_lines is exhausted: the loop ends
StreamEnd ==
  /\ pc = "s_loop"
  /\ pos > Len(stream)
  /\ pc' = "s_after"
  /\ ended_by' = "exhausted"
  /\ UNCHANGED <<args_vars, tok_vars, ex_vars, requests, resp, status_ok, loop_vars, after_vars,
                 printed, error, first_frag_at, last_frag_at, done_at>>

\* the connection fails while iter_lines waits for the next line
StreamDrop ==
  /\ pc = "s_loop"
  /\ pc' = "raised"
  /\ error' = "ChunkedEncodingError"
  /\ resp' = ExitWith(resp)
  /\ UNCHANGED <<args_vars, tok_vars, ex_vars, requests, status_ok, loop_vars, after_vars, printed,
                 hist_vars>>

\* the record run_streaming prints
StreamRecord(n, e, t) ==
  [mode |-> "stream", tokens |-> n, elapsed_seconds |-> e, tokens_per_second |-> t]

\* after the loop: full_text, elapsed, num_tokens, tps, print; the with block is left
StreamReport ==
  /\ pc = "s_after"
  /\ LET joined == Join(chunks)
     IN IF joined.ok
        THEN \E tc \in {[raised |-> c.raised, n |-> c.n] :
                         c \in UNION {TokenCount(joined.v, env) : env \in TokEnvs}} :
               LET e == Elapsed(first_token_time, last_token_time)
                   n == JNum(tc.n)
                   t == Tps(n, e).v
               IN /\ full_text' = joined.v
                  /\ elapsed' = e
                  /\ num_tokens' = n
                  /\ tps' = t
                  /\ printed' = Append(printed, StreamRecord(n, e, t))
                  /\ pc' = "done"
                  /\ UNCHANGED error
        ELSE /\ pc' = "raised"
             /\ error' = "TypeError"
             /\ UNCHANGED <<after_vars, printed>>
  /\ resp' = ExitWith(resp)
  /\ UNCHANGED <<args_vars, tok_vars, ex_vars, requests, status_ok, loop_vars, hist_vars>>

(* -------------------------- run_non_streaming ------------------------ *)

\* start = time.time(); requests.post(...) raises or returns; elapsed = time.time() - start
NonStreamPost ==
  /\ pc = "n_post"
  /\ requests' = requests + 1
  /\ \/ /\ pc' = "raised"
        /\ error' = "ConnectionError"
        /\ UNCHANGED <<elapsed, status_ok>>
     \/ /\ pc' = "n_status"
        /\ \E start \in Clock, now \in Clock : elapsed' = now - start
        /\ status_ok' \in BOOLEAN
        /\ UNCHANGED error
  /\ UNCHANGED <<args_vars, tok_vars, ex_vars, resp, loop_vars, full_text, num_tokens, tps, printed,
                 hist_vars>>

\* r.raise_for_status()
NonStreamStatus ==
  /\ pc = "n_status"
  /\ IF status_ok
     THEN /\ pc' = "n_body"
          /\ UNCHANGED error
     ELSE /\ pc' = "raised"
          /\ error' = "HTTPError"
  /\ UNCHANGED <<args_vars, tok_vars, ex_vars, requests, resp, status_ok, loop_vars, after_vars,
                 printed, hist_vars>>

\* the record run_non_streaming prints
NonStreamRecord(n, e, t) ==
  [mode |-> "non-stream", tokens |-> n, elapsed_seconds |-> e, tokens_per_second |-> t]

(* data = r.json() and the rest of run_non_streaming: what it can do is    *)
(* raise ([raised |-> TRUE, error]) or print ([raised |-> FALSE, text,     *)
(* tokens, tps]).                                                          *)
Fails(e) == [raised |-> TRUE, error |-> e, text |-> Unbound, tokens |-> JNull, tps |-> Inf]

NonStreamOutcomes(data, e) ==
  IF data = NoDoc THEN {Fails("JSONDecodeError")}
  ELSE IF data.t # "obj" THEN {Fails("UnboundLocalError")}   \* usage_tokens
  ELSE LET text == ResponseText(data)
           usage_tokens == UsageTokens(data)
       IN IF text.raised THEN {Fails("TypeError")}
          ELSE LET counts ==
                     IF usage_tokens # JNull
                     THEN {[raised |-> FALSE, n |-> usage_tokens]}
                     ELSE {[raised |-> tc.raised, n |-> JNum(tc.n)] :
                             tc \in UNION {TokenCount(text.v, env) : env \in TokEnvs}}
               IN {IF c.raised \/ Tps(c.n, e).raised
                   THEN Fails("TypeError")
                   ELSE [raised |-> FALSE, error |-> "none", text |-> text.v,
                         tokens |-> c.n, tps |-> Tps(c.n, e).v] : c \in counts}

NonStreamReport ==
  /\ pc = "n_body"
  /\ \E out \in NonStreamOutcomes(BodyCat[body], elapsed) :
       IF out.raised
       THEN /\ pc' = "raised"
            /\ error' = out.error
            /\ UNCHANGED <<full_text, num_tokens, tps, printed>>
       ELSE /\ pc' = "done"
            /\ full_text' = out.text
            /\ num_tokens' = out.tokens
            /\ tps' = out.tps
            /\ printed' = Append(printed, NonStreamRecord(out.tokens, elapsed, out.tps))
            /\ UNCHANGED error
  /\ UNCHANGED <<args_vars, tok_vars, ex_vars, requests, resp, status_ok, loop_vars, elapsed, hist_vars>>

Next ==
  \/ Main
  \/ StreamPost
  \/ StreamStatus
  \/ StreamLine
  \/ StreamEnd
  \/ StreamDrop
  \/ StreamReport
  \/ NonStreamPost
  \/ NonStreamStatus
  \/ NonStreamReport

Spec == Init /\ [][Next]_vars

(* -------------------- under a non-decreasing clock -------------------- *)

(* Every reading of run_streaming is assigned to last_token_time, which is *)
(* None before the first one, so a clock that never steps back gives       *)
(* last_token_time values that never decrease; in run_non_streaming the    *)
(* two readings are start and the one elapsed is computed from.            *)
NonDecreasingClock ==
  /\ last_token_time' >= last_token_time
  /\ pc = "n_post" => elapsed' >= 0

MonoNext ==
  \/ Main /\ NonDecreasingClock
  \/ StreamPost /\ NonDecreasingClock
  \/ StreamStatus /\ NonDecreasingClock
  \/ StreamLine /\ NonDecreasingClock
  \/ StreamEnd /\ NonDecreasingClock
  \/ StreamDrop /\ NonDecreasingClock
  \/ StreamReport /\ NonDecreasingClock
  \/ NonStreamPost /\ NonDecreasingClock
  \/ NonStreamStatus /\ NonDecreasingClock
  \/ NonStreamReport /\ NonDecreasingClock

MonoSpec == Init /\ [][MonoNext]_vars

(* ------------------------ token_count on its own ---------------------- *)

\* the characters of a text: a letter, a digit, the underscore, a space, a full stop
Alphabet == {"a", "7", "_", " ", "."}

\* the texts token_count is called with: None, and every str of at most MaxText characters
TokTexts == {JNull} \cup {JStr(s) : s \in UNION {[1..n -> Alphabet] : n \in 0..MaxText}}

TokInit ==
  /\ pc = "token_count"
  /\ stream_flag = FALSE
  /\ stream = <<>>
  /\ body = 1
  /\ InitRun
  /\ tc_text \in TokTexts
  /\ tc_env \in TokEnvs
  /\ tc_out = NotCalled
  /\ ExIdle
  /\ LineIdle

\* token_count(text, model) returns or raises
TokenCountCall ==
  /\ pc = "token_count"
  /\ tc_out' \in TokenCount(tc_text, tc_env)
  /\ pc' = IF tc_out'.raised THEN "raised" ELSE "returned"
  /\ UNCHANGED <<args_vars, ex_vars, tc_text, tc_env, requests, resp, status_ok, loop_vars,
                 after_vars, printed, error, hist_vars>>

TokNext == TokenCountCall

TokSpec == TokInit /\ [][TokNext]_vars

(* --------------------- the extraction on its own ---------------------- *)

\* the values of delta.content, of delta, of text, and the choices made of them
ExContents == {JStr(<<"a">>), EmptyStr, JNull}
ExDeltas == {JNull, JObj(EmptyDict)} \cup {JObj([content |-> c]) : c \in ExContents}
ExTexts == {JStr(<<"b">>), EmptyStr}
ExChoices ==
  {JObj(EmptyDict)}
    \cup {JObj([delta |-> d]) : d \in ExDeltas}
    \cup {JObj([text |-> t]) : t \in ExTexts}
    \cup {JObj([delta |-> d, text |-> t]) : d \in ExDeltas, t \in ExTexts}

\* the parsed objects: no dict, no choices, null choices, at most MaxChoices choices
ExObjects ==
  {JNum(7), JObj(EmptyDict), JObj([choices |-> JNull])}
    \cup {JObj([choices |-> JArr(a)]) :
            a \in UNION {[1..n -> ExChoices] : n \in 0..MaxChoices}}

ExInit ==
  /\ pc = "extract"
  /\ stream_flag = TRUE
  /\ stream = <<>>
  /\ body = 1
  /\ InitRun
  /\ TokIdle
  /\ ex_obj \in ExObjects
  /\ ex_piece = Unbound
  /\ LineIdle

\* text_piece = "" and the try block that follows it
ExtractPiece ==
  /\ pc = "extract"
  /\ ex_piece' = TextPiece(ex_obj)
  /\ pc' = "extracted"
  /\ UNCHANGED <<args_vars, tok_vars, ex_obj, ln_raw, requests, resp, status_ok, loop_vars,
                 after_vars, printed, error, hist_vars>>

ExNext == ExtractPiece

ExSpec == ExInit /\ [][ExNext]_vars

(* ----------------------- one pass of the loop ------------------------- *)

\* lines without a JSON document: blank, an empty payload, the sentinel, a heartbeat
BlankLines == {TextLine(<<>>), TextLine(<<" ">>)}
EmptyPayloadLines == {TextLine(DataPrefix), TextLine(DataSp)}
PlainLines ==
  BlankLines \cup EmptyPayloadLines
    \cup {TextLine(DataSp \o DoneText), TextLine(DataSp \o Heartbeat)}

\* the lines of one pass: the plain ones, and data: <object> for every parsed object
PassLines == PlainLines \cup {DocLine(DataSp, o) : o \in ExObjects}

(* The pass starts with the locals of a loop that has accumulated nothing, *)
(* or one fragment at some readings.                                       *)
LineInit ==
  /\ pc = "s_loop"
  /\ stream_flag = TRUE
  /\ stream = <<>>
  /\ body = 1
  /\ requests = 1
  /\ resp = "open"
  /\ status_ok = TRUE
  /\ pos = 1
  /\ chunks \in {<<>>, <<JStr(<<"a">>)>>}
  /\ IF chunks = <<>>
     THEN first_token_time = None /\ last_token_time = None
     ELSE first_token_time \in Clock /\ last_token_time \in Clock
  /\ full_text = Unbound
  /\ elapsed = 0
  /\ num_tokens = JNull
  /\ tps = Inf
  /\ printed = <<>>
  /\ error = "none"
  /\ ended_by = "none"
  /\ first_frag_at = None
  /\ last_frag_at = None
  /\ done_at = None
  /\ twin = [chunks |-> <<>>, first |-> None, last |-> None]
  /\ TokIdle
  /\ ex_obj = JNull /\ ex_piece = Unbound
  /\ ln_raw \in PassLines

\* one pass of the for loop over the line ln_raw
LinePass ==
  /\ pc = "s_loop"
  /\ pos = 1
  /\ \E now \in Clock :
       LET st == LoopBody(Locals, ln_raw, now)
       IN /\ chunks' = st.chunks
          /\ first_token_time' = st.first
          /\ last_token_time' = st.last
          /\ pos' = pos + 1
          /\ pc' = IF st.brk THEN "s_after" ELSE "s_loop"
  /\ UNCHANGED <<args_vars, tok_vars, ex_vars, requests, resp, status_ok, twin,
                 after_vars, printed, error, hist_vars>>

LineNext == LinePass

LineSpec == LineInit /\ [][LineNext]_vars

(* ------------------------------ the claims ---------------------------- *)

Min(a, b) == IF a <= b THEN a ELSE b

\* the payload of a line, and whether the line is the sentinel
PayloadOf(l) == PayloadText(Strip(l))
IsSentinelLine(l) == ~IsEmptyLine(Strip(l)) /\ IsDone(PayloadOf(l))

\* for every line of LineCat: whether it is the sentinel
CatSentinel == [k \in DOMAIN LineCat |-> IsSentinelLine(LineCat[k])]

\* the place of the first sentinel of the stream, Len(stream) + 1 if it has none
SentinelAt ==
  IF \E i \in 1..Len(stream) : CatSentinel[stream[i]]
  THEN CHOOSE i \in 1..Len(stream) :
         /\ CatSentinel[stream[i]]
         /\ \A j \in 1..(i - 1) : ~CatSentinel[stream[j]]
  ELSE Len(stream) + 1

\* the fragment extracted from a line that is not the sentinel ("" if none)
FragmentOf(l) ==
  IF IsEmptyLine(Strip(l)) THEN EmptyStr
  ELSE IF JsonLoads(PayloadOf(l)).ok THEN TextPiece(JsonLoads(PayloadOf(l)).v)
  ELSE JStr(PayloadOf(l).pre)

\* for every line of LineCat: its fragment
CatFragment == [k \in DOMAIN LineCat |-> FragmentOf(LineCat[k])]

\* the non-empty fragments of the first n lines, in arrival order
RECURSIVE FragmentsUpTo(_)
FragmentsUpTo(n) ==
  IF n = 0 THEN <<>>
  ELSE IF Truthy(CatFragment[stream[n]])
       THEN Append(FragmentsUpTo(n - 1), CatFragment[stream[n]])
       ELSE FragmentsUpTo(n - 1)

\* the lines the stream delivers before its sentinel
LinesBeforeSentinel == Min(Len(stream), SentinelAt - 1)

StreamDone == stream_flag /\ pc = "done"

(* C1: at every step of the streaming loop the accumulator is the ordered  *)
(* list of the non-empty fragments of the lines consumed so far that       *)
(* precede the sentinel; the loop ends only at the sentinel or when the    *)
(* stream is exhausted; and the full text handed to token counting is the  *)
(* concatenation, in arrival order, of exactly the non-empty fragments of  *)
(* the lines before the sentinel (of all lines if there is no sentinel).   *)
C1_AccumulatorIsFragments ==
  stream_flag =>
    /\ chunks = FragmentsUpTo(Min(pos - 1, SentinelAt - 1))
    /\ pos - 1 <= SentinelAt
    /\ pc \in {"s_after", "done"} => pos - 1 = Min(Len(stream), SentinelAt)
    /\ pc = "done" => full_text = JStr(Concat(FragmentsUpTo(LinesBeforeSentinel)))

\* C1 witness: a run that accumulated two different fragments and ended at the sentinel
C1_Witness ==
  /\ StreamDone /\ ended_by = "sentinel"
  /\ Len(chunks) = 2 /\ chunks[1] # chunks[2]
  /\ full_text = JStr(chunks[1].s \o chunks[2].s)

(* C2 (the claim as stated): once the sentinel is met, last_token_time is  *)
(* the reading taken at the sentinel, no later line is consumed and the    *)
(* accumulator is the fragments before the sentinel, and the run goes on   *)
(* to end normally with one printed result.                                *)
C2_SentinelEndsRunNormally ==
  ended_by = "sentinel" =>
    /\ last_token_time = done_at
    /\ pos = SentinelAt + 1
    /\ chunks = FragmentsUpTo(SentinelAt - 1)
    /\ pc \in {"s_after", "done"}
    /\ pc = "done" => Len(printed) = 1

(* C3 (the claim as stated): after the stream ends, elapsed is             *)
(* last_token_time - first_token_time whenever both were set, whatever the *)
(* readings are, and 0.0 when one of them was never set.                   *)
C3_ElapsedIsDifferenceWhenBothSet ==
  StreamDone =>
    /\ (first_token_time # None /\ last_token_time # None)
          => elapsed = last_token_time - first_token_time
    /\ (first_token_time = None \/ last_token_time = None) => elapsed = 0

(* C4 (the claim as stated, on the runs whose readings are non-zero and do *)
(* not step backwards, so that the falsy zero reading of C3 plays no       *)
(* part): the elapsed time reported is the arrival of the last non-empty   *)
(* fragment minus the arrival of the first one.                            *)
C4_InterFragmentSpan ==
  (/\ StreamDone
   /\ first_frag_at # None /\ first_frag_at # 0 /\ last_token_time # 0
   /\ first_frag_at <= last_frag_at /\ last_frag_at <= last_token_time)
    => elapsed = last_frag_at - first_frag_at

\* the reading at which the stream ended: the sentinel's, else the last fragment's
EndAt == IF ended_by = "sentinel" THEN done_at ELSE last_frag_at

(* C4 (amended): the elapsed time reported is the span from the arrival of *)
(* the first non-empty fragment to the arrival of the sentinel when the    *)
(* stream ends by [DONE], and to the arrival of the last non-empty         *)
(* fragment only when the stream closes naturally; it is 0 when no         *)
(* non-empty fragment arrived or when either of the two readings is 0.     *)
C4_SpanToSentinel ==
  StreamDone =>
    elapsed = IF first_frag_at # None /\ first_frag_at # 0 /\ EndAt # 0
              THEN EndAt - first_frag_at
              ELSE 0

\* C4 witness: the sentinel arrives after the last fragment and the span reaches it
C4_Witness ==
  /\ StreamDone /\ ended_by = "sentinel"
  /\ first_frag_at = 1 /\ last_frag_at = 1 /\ done_at = 2
  /\ elapsed = 1

TransportErrors == {"ConnectionError", "HTTPError", "ChunkedEncodingError"}

(* C5 (the claim as stated): a streaming run whose lines are delivered     *)
(* without a transport failure consumes all lines up to the sentinel or    *)
(* the end of the stream and prints a benchmark result: it is never left   *)
(* by another error.                                                       *)
C5_MalformedLinesNeverAbort ==
  (stream_flag /\ pc \in {"done", "raised"} /\ error \notin TransportErrors)
    => /\ pc = "done"
       /\ Len(printed) = 1
       /\ pos - 1 = Min(Len(stream), SentinelAt)

(* C6: a transport failure is a hard failure in both modes: a connection   *)
(* failure at the request or during line iteration, and a non-success      *)
(* status, leave the run by the error, and nothing is printed; a result is *)
(* printed only by a run that met no failure.                              *)
C6_TransportFailureIsHard ==
  /\ error \in TransportErrors => pc = "raised" /\ printed = <<>>
  /\ ~status_ok => pc \in {"s_status", "n_status", "raised"} /\ printed = <<>>
  /\ (~status_ok /\ pc = "raised") => error = "HTTPError"
  /\ printed # <<>> => pc = "done" /\ error = "none" /\ status_ok

\* C6 witness: the connection failed during iteration, after a fragment was accumulated
C6_Witness ==
  /\ pc = "raised" /\ error = "ChunkedEncodingError"
  /\ chunks # <<>> /\ printed = <<>>

(* C7: once the streaming request has returned a response, the response is *)
(* closed when run_streaming has finished, by a result or by an error; it  *)
(* is open only while the run is inside the with block.                    *)
C7_ResponseClosedOnEveryExit ==
  stream_flag =>
    /\ pc \in {"done", "raised"} => resp # "open"
    /\ resp = "none" =>
         pc \in {"main", "s_post"} \/ (pc = "raised" /\ error = "ConnectionError")
    /\ resp = "open" => pc \in {"s_status", "s_loop", "s_after"}

\* C7 witness: the run was left by an error raised while computing the result
C7_Witness == stream_flag /\ pc = "raised" /\ error = "TypeError" /\ resp = "closed"

C9_SchemaIndependence == stream_flag => twin = Locals

\* C9 witness: a finished run over a chat fragment and a completion fragment
C9_Witness ==
  /\ StreamDone /\ Len(chunks) = 2 /\ twin = Locals
  /\ \E i, j \in 1..Len(stream) : stream[i] = 4 /\ stream[j] = 5

\* the pass of the loop over the heartbeat line (line 3 of LineCat)
C10_Step ==
  (pc = "s_loop" /\ pos <= Len(stream) /\ pos' = pos + 1 /\ stream[pos] = 3)
    => LET parsed == LoopBody(Locals, DocLine(DataSp, Chat(JStr(Heartbeat))),
                              last_token_time')
       IN /\ chunks' = Append(chunks, JStr(Heartbeat))
          /\ last_token_time' \in Clock
          /\ first_token_time' =
               IF first_token_time = None THEN last_token_time' ELSE first_token_time
          /\ chunks' = parsed.chunks
          /\ first_token_time' = parsed.first
          /\ last_token_time' = parsed.last

\* the heartbeat in the accumulated text, in its arrival position
C10_Text ==
  (stream_flag /\ Len(stream) >= 2 /\ pos > 2 /\ stream[2] = 3) =>
    /\ stream[1] = 1 => chunks[1] = JStr(Heartbeat)
    /\ stream[1] = 4 => chunks[2] = JStr(Heartbeat)
    /\ (stream[1] = 4 /\ pc = "done") => StartsWith(full_text.s, <<"a">> \o Heartbeat)

(* C10: a payload that is no JSON and is not empty is appended verbatim    *)
(* (trimmed, without its data: prefix) to the accumulator and updates the  *)
(* two timestamps exactly as a parsed fragment of the same text does, so   *)
(* that the heartbeat appears in the accumulated text in its arrival       *)
(* position.                                                               *)
C10_RawPassthrough == [][C10_Step]_vars /\ []C10_Text

\* C10 witness: a heartbeat after a fragment, then the end of the stream
C10_Witness ==
  /\ StreamDone /\ Len(stream) >= 2 /\ stream[1] = 4 /\ stream[2] = 3
  /\ chunks = <<JStr(<<"a">>), JStr(Heartbeat)>>
  /\ full_text = JStr(<<"a">> \o Heartbeat)

NonStreamDone == ~stream_flag /\ pc = "done"

\* the body carries usage.total_tokens (JSON null is no token count)
CarriesUsage(data) ==
  /\ data.t = "obj" /\ "usage" \in DOMAIN data.o
  /\ data.o["usage"].t = "obj" /\ "total_tokens" \in DOMAIN data.o["usage"].o
  /\ data.o["usage"].o["total_tokens"] # JNull

\* the body has choices[0].message.content, or choices[0].text and no message
HasFirstChoice(data) ==
  /\ data.t = "obj" /\ "choices" \in DOMAIN data.o
  /\ data.o["choices"].t = "arr" /\ data.o["choices"].a # <<>>
  /\ data.o["choices"].a[1].t = "obj"

IsChatBody(data) ==
  /\ HasFirstChoice(data)
  /\ LET ch == data.o["choices"].a[1]
     IN /\ "message" \in DOMAIN ch.o /\ ch.o["message"].t = "obj"
        /\ "content" \in DOMAIN ch.o["message"].o

IsCompletionBody(data) ==
  /\ HasFirstChoice(data)
  /\ LET ch == data.o["choices"].a[1]
     IN "message" \notin DOMAIN ch.o /\ "text" \in DOMAIN ch.o

\* the counts token_count can return for a text, over every tokenizer environment
CountsOf(text) ==
  {JNum(tc.n) : tc \in {c \in UNION {TokenCount(text, env) : env \in TokEnvs} : ~c.raised}}

(* C11: in every record printed in non-streaming mode, tokens is           *)
(* usage.total_tokens when the body carries one (whatever token_count      *)
(* would return for the extracted text); when usage or usage.total_tokens  *)
(* is absent (or null), tokens is a token_count of                         *)
(* choices[0].message.content (chat) or of choices[0].text (completion).   *)
C11_UsageOverridesCount ==
  NonStreamDone =>
    LET data == BodyCat[body]
    IN /\ Len(printed) = 1 /\ printed[1].tokens = num_tokens
       /\ CarriesUsage(data) => num_tokens = data.o["usage"].o["total_tokens"]
       /\ (~CarriesUsage(data) /\ IsChatBody(data)) =>
            /\ full_text = data.o["choices"].a[1].o["message"].o["content"]
            /\ num_tokens \in CountsOf(full_text)
       /\ (~CarriesUsage(data) /\ IsCompletionBody(data)) =>
            /\ full_text = data.o["choices"].a[1].o["text"]
            /\ num_tokens \in CountsOf(full_text)

\* C11 witness: the body reports 7 tokens for a text that counts 1 or 2, and 7 is printed
C11_Witness ==
  /\ NonStreamDone /\ body = 2 /\ elapsed > 0
  /\ printed[1].tokens = JNum(7) /\ JNum(7) \notin CountsOf(full_text)

\* token_count returned, and the heuristic counted
HeuristicReturned == pc = "returned" /\ tc_out.by = "heuristic"

\* the places where a maximal run of alphanumeric/underscore characters starts
WordRunStarts(s) ==
  {i \in 1..Len(s) : IsWord(s[i]) /\ (i = 1 \/ ~IsWord(s[i - 1]))}

\* the places of the characters that are neither whitespace nor alphanumeric/underscore
PunctPlaces(s) == {i \in 1..Len(s) : ~IsWord(s[i]) /\ ~IsSpace(s[i])}

RunsPlusPunct(s) == Cardinality(WordRunStarts(s)) + Cardinality(PunctPlaces(s))

(* C12 (the claim as stated): the heuristic count of every non-empty text  *)
(* is at least 1 and is the number of maximal alphanumeric/underscore runs *)
(* plus the number of characters that are neither whitespace nor           *)
(* alphanumeric/underscore; the count of "" and of None is 0.              *)
C12_HeuristicAtLeastOne ==
  /\ (HeuristicReturned /\ tc_text.t = "str" /\ tc_text.s # <<>>) =>
       /\ tc_out.n >= 1
       /\ tc_out.n = RunsPlusPunct(tc_text.s)
  /\ (pc = "returned" /\ tc_text \in {JNull, EmptyStr}) => tc_out.n = 0

(* C12 (amended): the heuristic count of every non-empty text is the       *)
(* number of maximal alphanumeric/underscore runs plus the number of       *)
(* characters that are neither whitespace nor alphanumeric/underscore; it  *)
(* is at least 1 exactly when the text has a character that is not         *)
(* whitespace, and 0 for a text of whitespace only; the count of "" and of *)
(* None is 0.                                                              *)
C12_HeuristicCount ==
  /\ (HeuristicReturned /\ tc_text.t = "str" /\ tc_text.s # <<>>) =>
       /\ tc_out.n = RunsPlusPunct(tc_text.s)
       /\ tc_out.n >= 1 <=> \E i \in 1..Len(tc_text.s) : ~IsSpace(tc_text.s[i])
  /\ (pc = "returned" /\ tc_text \in {JNull, EmptyStr}) => tc_out.n = 0

\* C12 witness: the heuristic counts one run and one full stop in "a7."
C12_Witness ==
  /\ HeuristicReturned /\ tc_text = JStr(<<"a", "7", ".">>) /\ tc_out.n = 2

\* what counts a text under a tokenizer library, as the fallback chain is stated
StrategyOf(text, env) ==
  IF text \in {JNull, EmptyStr} THEN "none"
  ELSE IF env.available /\ env.model /\ env.model_ok /\ env.encode_ok THEN "model"
  ELSE IF /\ env.available /\ env.default_ok /\ env.encode_ok
          /\ ~(env.model /\ env.model_ok)
       THEN "default"
  ELSE "heuristic"

(* C13: token_count never fails its caller: for every text (a str or None) *)
(* and every combination of tokenizer availability and failure, it returns *)
(* an integer >= 0, counted by the model's tokenizer when it resolves,     *)
(* else by the default encoding, else (library absent, both lookups        *)
(* failed, or encode raised) by the heuristic.                             *)
C13_TokenCountNeverFails ==
  pc # "token_count" =>
    /\ pc = "returned" /\ ~tc_out.raised
    /\ tc_out.n \in Nat
    /\ tc_out.by = StrategyOf(tc_text, tc_env)
    /\ tc_out.by = "heuristic" => tc_out.n = RunsPlusPunct(tc_text.s)
    /\ tc_out.by = "none" => tc_out.n = 0

\* C13 witness: the model's encoding resolved, encode raised, and the heuristic counted
C13_Witness ==
  /\ pc = "returned" /\ tc_out.by = "heuristic" /\ tc_out.n = 1
  /\ tc_env.available /\ tc_env.model /\ tc_env.model_ok /\ ~tc_env.encode_ok

\* the fragment a text piece stands for: a piece that is not truthy is no fragment
FragmentOfPiece(piece) == IF Truthy(piece) THEN piece ELSE EmptyStr

\* the first choice of the parsed object, when it has one
HasChoice(obj) ==
  /\ obj.t = "obj" /\ "choices" \in DOMAIN obj.o
  /\ obj.o["choices"].t = "arr" /\ obj.o["choices"].a # <<>>

FirstChoice(obj) == obj.o["choices"].a[1].o

HasStr(fields, k) == k \in DOMAIN fields /\ fields[k].t = "str"

NoChoices(obj) ==
  /\ obj.t = "obj"
  /\ "choices" \notin DOMAIN obj.o \/ obj.o["choices"] \in {JNull, JArr(<<>>)}

\* the object's first choice has an empty or absent delta.content, or text
EmptyChoice(obj) ==
  /\ HasChoice(obj)
  /\ LET ch == FirstChoice(obj)
     IN IF "delta" \in DOMAIN ch /\ ch["delta"].t = "obj"
        THEN \/ "content" \notin DOMAIN ch["delta"].o
             \/ ch["delta"].o["content"] = EmptyStr
        ELSE "text" \notin DOMAIN ch \/ ch["text"] = EmptyStr

\* the lines the claim names as yielding no fragment
NoFragmentLine(l) ==
  \/ l \in BlankLines
  \/ l \in EmptyPayloadLines
  \/ l.doc # NoDoc /\ (NoChoices(l.doc) \/ EmptyChoice(l.doc))

\* a pass of the loop over a line that yields no fragment changes none of the locals
C15_Step ==
  (pc = "s_loop" /\ pos' = pos + 1 /\ NoFragmentLine(ln_raw)) =>
    /\ chunks' = chunks
    /\ first_token_time' = first_token_time
    /\ last_token_time' = last_token_time
    /\ pc' = "s_loop"

(* C15: a line that yields no fragment leaves the consumer state           *)
(* unchanged: a blank line, a data: line with an empty payload, a parsed   *)
(* object with missing or empty choices, and a first choice whose          *)
(* delta.content or text is empty or absent change neither the accumulator *)
(* nor first_token_time nor last_token_time, and the loop goes on.         *)
C15_NoFragmentNoChange == [][C15_Step]_vars

\* C15 witness: after a fragment at readings 1 and 2, the pass over data: {"choices":[]}
C15_Witness ==
  /\ pc = "s_loop" /\ pos = 2
  /\ ln_raw = DocLine(DataSp, JObj([choices |-> JArr(<<>>)]))
  /\ chunks = <<JStr(<<"a">>)>> /\ first_token_time = 1 /\ last_token_time = 2

(* C16 (the claim as stated): in non-streaming mode a response with a      *)
(* success status whose body is a JSON document of any shape ends in one   *)
(* printed result: the run is left by an error only for a transport        *)
(* failure.                                                                *)
C16_AnyJsonBodyPrints ==
  (~stream_flag /\ BodyCat[body] # NoDoc) =>
    /\ pc = "raised" => error \in TransportErrors
    /\ (pc \in {"done", "raised"} /\ error \notin TransportErrors) =>
         pc = "done" /\ Len(printed) = 1

\* first_token_time never changes once it is set
C17_Step == first_token_time # None => first_token_time' = first_token_time

\* the timestamps against the accumulator, at every step of a streaming run
C17_State ==
  stream_flag =>
    /\ first_token_time # None <=> chunks # <<>>
    /\ first_token_time # None => last_token_time # None
    /\ first_token_time # None => last_token_time >= first_token_time
    /\ elapsed >= 0
    /\ \A i \in 1..Len(printed) : printed[i].elapsed_seconds >= 0

(* C17: under a non-decreasing clock, at every step of the streaming loop  *)
(* first_token_time is set if and only if the accumulator is not empty, it *)
(* never changes once set, last_token_time is set whenever                 *)
(* first_token_time is, last_token_time >= first_token_time, and the       *)
(* elapsed time reported is never negative.                                *)
C17_TimestampInvariant == [][C17_Step]_vars /\ []C17_State

\* C17 witness: two fragments at readings 1 and 2, reported with elapsed 1
C17_Witness ==
  /\ StreamDone /\ Len(chunks) = 2
  /\ first_token_time = 1 /\ last_token_time = 2
  /\ printed[1].elapsed_seconds = 1

(* C18: a successful stream that delivers no non-empty fragment before    *)
(* its end (it closes at once, holds only blank or empty-fragment lines,   *)
(* or starts with [DONE]) finishes with a record of tokens 0, elapsed 0    *)
(* and tokens_per_second infinity, also when the sentinel has set          *)
(* last_token_time.                                                        *)
C18_EmptyStreamOutcome ==
  (/\ stream_flag /\ pc \in {"done", "raised"} /\ error \notin TransportErrors
   /\ FragmentsUpTo(LinesBeforeSentinel) = <<>>)
    => /\ pc = "done"
       /\ first_token_time = None
       /\ ended_by = "sentinel" => last_token_time = done_at
       /\ num_tokens = JNum(0) /\ elapsed = 0 /\ tps = Inf
       /\ printed = <<StreamRecord(JNum(0), 0, Inf)>>

\* C18 witness: the stream is an empty-fragment line and then [DONE], read at 2
C18_Witness ==
  /\ StreamDone /\ stream = <<6, 2>> /\ last_token_time = 2
  /\ printed = <<StreamRecord(JNum(0), 0, Inf)>>

(* C19: an invocation issues exactly one HTTP request (none before the     *)
(* post, one ever after, whether the run fails or not); a run that does    *)
(* not fail prints exactly one record, whose mode is stream if and only if *)
(* --stream was given; a run that fails prints none.                       *)
C19_OneRequestOneRecord ==
  /\ requests = IF pc \in {"main", "s_post", "n_post"} THEN 0 ELSE 1
  /\ Len(printed) = IF pc = "done" THEN 1 ELSE 0
  /\ \A i \in 1..Len(printed) :
       printed[i].mode = IF stream_flag THEN "stream" ELSE "non-stream"
  /\ pc = "raised" <=> error # "none"

\* C19 witness: a failed streaming run after one request, and nothing printed
C19_Witness ==
  /\ stream_flag /\ pc = "raised" /\ error = "HTTPError"
  /\ requests = 1 /\ printed = <<>>

====
